---- MODULE Spec2Model ----
(***************************************************************************)
(* The ingest_events edge function (supabase/functions/ingest_events/      *)
(* index.ts): a handler that fetches the day's fixtures page by page from  *)
(* the provider, resolves league and team rows by upsert, builds one match *)
(* row per fixture and writes the batch with upsertJogos.                  *)
(*                                                                         *)
(* Every `await` of the handler is one action: the request, its effect on  *)
(* the store (one SQL statement, atomic) and the code that runs up to the  *)
(* next await.  Invocations interleave only at those points.               *)
(*                                                                         *)
(* The store is Postgres behind PostgREST: `id_api` is the unique key the  *)
(* code names in onConflict.  A statement may fail for no reason of the    *)
(* caller (StoreDown); an INSERT that meets an existing or repeated key    *)
(* fails with UniqueViolation; an INSERT .. ON CONFLICT DO UPDATE whose    *)
(* rows repeat a key fails too (cardinality violation).  A failed statement *)
(* changes nothing.  Only the columns the claims read are kept: the        *)
(* internal id, id_api, and for jogos the three references and the status. *)
(***************************************************************************)
EXTENDS Integers, Sequences, FiniteSets, TLC

VARIABLES
  apiKey,     \* API_FOOTBALL_KEY is set in the environment
  provider,   \* which upstreams the provider may serve to an invocation (Offered)
  budget,     \* budget[i]: invocations process i may still start
  inv,        \* inv[i]: the locals of process i's current invocation
  ligas,      \* table ligas
  times,      \* table times
  jogos,      \* table jogos
  rets,       \* history: every (table, id_api, id) a resolver returned, and to whom
  codes,      \* status codes still to normalise (mapStatus alone)
  mapped      \* the (code, status) pairs mapStatus produced

vars == <<apiKey, provider, budget, inv, ligas, times, jogos, rets, codes, mapped>>

(***************************************************************************)
(* Bounds and values                                                       *)
(***************************************************************************)
MaxPages == 3          \* largest paging.total an upstream reports
MaxCodes == 2          \* status codes normalised in one behaviour of SpecStatus

Procs == {1, 2}
SeqBudget == <<2, 0>>  \* Spec: process 1 runs twice, one run after the other
ConcBudget == <<1, 1>> \* SpecConc: two invocations, interleaved

Null == 0              \* JSON null / absent number in a provider payload
NullRef == 0           \* SQL NULL in a uuid column of JogosInsert
DEFAULT_LEAGUE == 71

\* String(x) of a provider id: String(null) is the text "null"
StringOf(x) == IF x = Null THEN "null" ELSE ToString(x)

(***************************************************************************)
(* mapStatus                                                               *)
(***************************************************************************)
mapStatusDropsPenalties(apiShort) ==
  CASE apiShort = "NS" -> "scheduled"
    [] apiShort = "1H" -> "in_progress"
    [] apiShort = "2H" -> "in_progress"
    [] apiShort = "HT" -> "in_progress"
    [] apiShort = "ET" -> "in_progress"
    [] apiShort = "BT" -> "in_progress"
    [] apiShort = "FT" -> "finished"
    [] apiShort = "AET" -> "finished"
    [] apiShort = "PEN" -> "finished"
    [] apiShort = "CANC" -> "canceled"
    [] apiShort = "ABD" -> "canceled"
    [] apiShort = "PST" -> "postponed"
    [] OTHER -> "scheduled"

mapStatus(apiShort) ==
  CASE apiShort = "NS" -> "scheduled"
    [] apiShort = "1H" -> "in_progress"
    [] apiShort = "2H" -> "in_progress"
    [] apiShort = "HT" -> "in_progress"
    [] apiShort = "ET" -> "in_progress"
    [] apiShort = "BT" -> "in_progress"
    [] apiShort = "P" -> "in_progress"
    [] apiShort = "FT" -> "finished"
    [] apiShort = "AET" -> "finished"
    [] apiShort = "PEN" -> "finished"
    [] apiShort = "CANC" -> "canceled"
    [] apiShort = "ABD" -> "canceled"
    [] apiShort = "PST" -> "postponed"
    [] OTHER -> "scheduled"

\* The codes the switch names, and strings it does not name (the provider's
\* other codes, a lower-case code, the empty string the handler passes for a
\* missing status.short).
DefinedCodes ==
  {"NS", "1H", "2H", "HT", "ET", "BT", "P", "FT", "AET", "PEN", "CANC", "ABD", "PST"}
OtherCodes == {"", "TBD", "LIVE", "SUSP", "INT", "AWD", "WO", "ns", "ft", "XX"}
Codes == DefinedCodes \cup OtherCodes

(***************************************************************************)
(* Provider payloads                                                       *)
(***************************************************************************)
\* FixtureApi, reduced to the fields the handler reads into keys and status
Fx(n) == [id |-> n, league |-> 1, home |-> 1, away |-> 2, short |-> "NS"]

FixturePool ==
  { Fx(1),
    [Fx(1) EXCEPT !.short = "FT"],
    [Fx(1) EXCEPT !.id = Null],
    [id |-> 2, league |-> 1, home |-> Null, away |-> 2, short |-> "FT"],
    [id |-> 2, league |-> 2, home |-> 2, away |-> 1, short |-> "1H"] }

\* One HTTP answer of the fixtures endpoint: r.ok, r.status, r.text(), and the
\* decoded envelope's errors (non-empty or not), paging.total and response
PageOk(fxs, total, err) ==
  [ok |-> TRUE, status |-> 200, body |-> "envelope",
   errors |-> err, total |-> total, response |-> fxs]
PageFail ==
  [ok |-> FALSE, status |-> 503, body |-> "unavailable",
   errors |-> FALSE, total |-> Null, response |-> <<>>]

\* An upstream is the sequence of its pages.
PagingUpstream(T, failAt, err, empty1) ==
  [p \in 1..T |->
     IF p = failAt THEN PageFail
     ELSE PageOk(IF p = 1 /\ empty1 THEN <<>> ELSE <<Fx(p)>>, T, err /\ p = 1)]
PagingUpstreams ==
  { PagingUpstream(T, f, e, m) :
      T \in 1..MaxPages, f \in 0..MaxPages, e \in BOOLEAN, m \in BOOLEAN }
ContentUpstreams ==
  { <<PageOk(<<a>>, 1, FALSE)>> : a \in FixturePool }
  \cup { <<PageOk(<<a>>, 2, FALSE), PageOk(<<b>>, 2, FALSE)>> : a, b \in FixturePool }
  \cup { <<PageOk(<<a>>, Null, FALSE)>> : a \in {Fx(1)} }
Upstreams == PagingUpstreams \cup ContentUpstreams
ConcUpstreams ==
  { <<PageOk(<<a>>, 1, FALSE)>> : a \in {f \in FixturePool : f.id # Null /\ f.home # Null} }
  \cup { <<PageOk(<<Fx(1), Fx(2)>>, 1, FALSE)>>,
         <<PageOk(<<Fx(1)>>, 2, FALSE), PageOk(<<[Fx(1) EXCEPT !.short = "FT"]>>, 2, FALSE)>> }

\* the upstreams an invocation may meet
Offered(p) ==
  CASE p = "any" -> Upstreams
    [] p = "overlapping" -> ConcUpstreams
    [] OTHER -> {}

RECURSIVE Concat(_)
Concat(pages) ==
  IF pages = <<>> THEN <<>> ELSE pages[1].response \o Concat(Tail(pages))

(***************************************************************************)
(* The store                                                               *)
(***************************************************************************)
StoreDown == [msg |-> "store unavailable", status |-> 0, body |-> ""]
UniqueViolation ==
  [msg |-> "duplicate key value violates unique constraint", status |-> 0, body |-> ""]

KeysOf(tbl) == {r.id_api : r \in tbl}
NewId(tbl) == Cardinality(tbl) + 1

\* ligas / times: .upsert(row, { onConflict: "id_api" }).select("id").single()
UpsertKeyAlwaysInserts(tbl, key) == tbl \cup {[id |-> NewId(tbl), id_api |-> key]}

UpsertKey(tbl, key) ==
  IF key \in KeysOf(tbl) THEN tbl
  ELSE tbl \cup {[id |-> NewId(tbl), id_api |-> key]}

IdOf(tbl, key) == (CHOOSE r \in tbl : r.id_api = key).id

\* jogos
Stored(id, r) ==
  [id |-> id, id_api |-> r.id_api, liga_id |-> r.liga_id,
   time_casa_id |-> r.time_casa_id, time_fora_id |-> r.time_fora_id,
   status |-> r.status]

Repeats(rows) ==
  \E a, b \in 1..Len(rows) : a < b /\ rows[a].id_api = rows[b].id_api

\* an update that deletes the row and stores it again under a fresh id
UpdateWhereReplaces(tbl, r) ==
  IF r.id_api \in KeysOf(tbl)
  THEN {t \in tbl : t.id_api # r.id_api} \cup {Stored(NewId(tbl), r)}
  ELSE tbl

UpdateWhere(tbl, r) ==
  {IF t.id_api = r.id_api THEN Stored(t.id, r) ELSE t : t \in tbl}

PutRow(tbl, r) ==
  IF r.id_api \in KeysOf(tbl) THEN UpdateWhere(tbl, r)
  ELSE tbl \cup {Stored(NewId(tbl), r)}

RECURSIVE UpsertRows(_, _)
UpsertRows(tbl, rows) ==
  IF rows = <<>> THEN tbl ELSE UpsertRows(PutRow(tbl, rows[1]), Tail(rows))

\* an insert that stores the first row of its payload only
InsertRowsFirstOnly(tbl, rows) ==
  IF rows = <<>> THEN tbl ELSE tbl \cup {Stored(NewId(tbl), rows[1])}

RECURSIVE InsertRows(_, _)
InsertRows(tbl, rows) ==
  IF rows = <<>> THEN tbl
  ELSE InsertRows(tbl \cup {Stored(NewId(tbl), rows[1])}, Tail(rows))

InsertConflicts(tbl, rows) ==
  Repeats(rows) \/ \E n \in 1..Len(rows) : rows[n].id_api \in KeysOf(tbl)

(***************************************************************************)
(* Requests and responses                                                  *)
(***************************************************************************)
\* apiUrl: the query the handler builds (no league, season, date or timezone
\* parameter in the trigger request: the defaults)
ApiUrl ==
  [league |-> DEFAULT_LEAGUE, season |-> "year of date", date |-> "today",
   timezone |-> "America/Sao_Paulo"]

\* fetch(url): the first request carries no page parameter
FirstRequest(url) == [query |-> url, page |-> Null]

\* u.searchParams.set("page", String(page)); fetch(u.toString())
PageRequestAlwaysSecond(url, page) == [query |-> url, page |-> 2]

PageRequest(url, page) == [query |-> url, page |-> page]

\* the page the provider serves for a request (no page parameter: page 1)
Served(req) == IF req.page = Null THEN 1 ELSE req.page
Answer(up, req) == up[Served(req)]

\* j0?.paging?.total ?? 1
TotalOf(j0) == IF j0.total = Null THEN 1 ELSE j0.total

NoError == [msg |-> "", status |-> 0, body |-> ""]
NoSummary == [created |-> 0, updated |-> 0]
NoResp ==
  [ok |-> FALSE, status |-> 0, reason |-> "none", summary |-> NoSummary, error |-> NoError]

\* new Error(`API-Football error ${r.status}: ${text}`)
TransportErrorNoStatus(pg) == [msg |-> "API-Football error", status |-> 0, body |-> pg.body]

TransportError(pg) == [msg |-> "API-Football error", status |-> pg.status, body |-> pg.body]

MissingKey == [msg |-> "Missing API_FOOTBALL_KEY", status |-> 0, body |-> ""]

\* catch (e): { ok: false, error: String(e?.message ?? e) }, status 500
Failure500(e) ==
  [ok |-> FALSE, status |-> 500, reason |-> "error", summary |-> NoSummary, error |-> e]
\* { ok: false, reason: "upstream_error", ... }, status 502
UpstreamError ==
  [ok |-> FALSE, status |-> 502, reason |-> "upstream_error", summary |-> NoSummary,
   error |-> NoError]
\* { ok: true, ...summary, debug }, default status 200
Success(summary) ==
  [ok |-> TRUE, status |-> 200, reason |-> "ok", summary |-> summary, error |-> NoError]

(***************************************************************************)
(* The locals of one invocation                                            *)
(***************************************************************************)
NoPrev == [ok |-> FALSE, up |-> <<>>, nl |-> 0, nt |-> 0, nj |-> 0]

Idle ==
  [pc |-> "idle", up |-> <<>>, reqs |-> <<>>, hasErrors |-> FALSE, total |-> 0,
   page |-> 0, fixtures |-> <<>>, k |-> 0, ligaId |-> NullRef, homeId |-> NullRef,
   rows |-> <<>>, existingSet |-> {}, j |-> 0, resp |-> NoResp,
   fault |-> FALSE,    \* history: a statement of this invocation failed with StoreDown
   writes |-> {},      \* history: the mutations this invocation issued
   log |-> <<>>,       \* history: the network calls this invocation made, in order
   before |-> {},      \* history: jogos as the failed bulk upsert found it
   prev |-> NoPrev]    \* history: the process's previous invocation, if it succeeded

\* the handler returns: its locals are gone
Return(l, r) ==
  [l EXCEPT !.pc = "done", !.resp = r, !.page = 0, !.k = 0, !.ligaId = NullRef,
            !.homeId = NullRef, !.existingSet = {}, !.j = 0]
\* the catch block answering as if nothing had been thrown
ThrowSwallowed(l, e) == Return(l, Success(NoSummary))

\* no catch block: the exception leaves the handler and no response is built
ThrowEscapes(l, e) == [l EXCEPT !.pc = "crashed"]

Throw(l, e) == Return(l, Failure500(e))

\* one network call, made with await: the handler goes on when it has completed
CallNotAwaited(op, n) == [op |-> op, fx |-> n, awaited |-> FALSE]

Call(op, n) == [op |-> op, fx |-> n, awaited |-> TRUE]

toInsert(l) == SelectSeq(l.rows, LAMBDA r : r.id_api \notin l.existingSet)
toUpdate(l) == SelectSeq(l.rows, LAMBDA r : r.id_api \in l.existingSet)
Summary(l) == [created |-> Len(toInsert(l)), updated |-> Len(toUpdate(l))]
Ids(rows) == {rows[n].id_api : n \in 1..Len(rows)}

\* existingSet: the id_api the pre-read returns for .in("id_api", ids)
ExistingNone(tbl, rows) == {}

Existing(tbl, rows) == Ids(rows) \cap KeysOf(tbl)

\* the row built with the provider's league id in place of the resolved one
BuildRowProviderLeague(fx, ligaId, homeId, awayId) ==
  [id_api |-> StringOf(fx.id), liga_id |-> fx.league, time_casa_id |-> homeId,
   time_fora_id |-> awayId, status |-> mapStatus(fx.short)]

BuildRow(fx, ligaId, homeId, awayId) ==
  [id_api |-> StringOf(fx.id), liga_id |-> ligaId, time_casa_id |-> homeId,
   time_fora_id |-> awayId, status |-> mapStatus(fx.short)]

(***************************************************************************)
(* The handler                                                             *)
(***************************************************************************)
Others == <<apiKey, provider, codes, mapped>>

\* what the previous invocation of the process left, read as the next one starts
Snapshot(l) ==
  IF l.pc = "done" /\ l.resp.ok
  THEN [ok |-> TRUE, up |-> l.up, nl |-> Cardinality(ligas),
        nt |-> Cardinality(times), nj |-> Cardinality(jogos)]
  ELSE NoPrev

\* Deno.serve(async (req) => { ... : the request arrives
Begin(i) ==
  /\ inv[i].pc \in {"idle", "done"}
  /\ budget[i] > 0
  /\ budget' = [budget EXCEPT ![i] = @ - 1]
  /\ \/ /\ ~apiKey
        /\ inv' = [inv EXCEPT ![i] =
                     Return([Idle EXCEPT !.prev = Snapshot(inv[i])], Failure500(MissingKey))]
     \/ /\ apiKey
        /\ \E u \in Offered(provider) :
             inv' = [inv EXCEPT ![i] =
                       [Idle EXCEPT !.pc = "fetch", !.up = u, !.page = 1,
                                    !.prev = Snapshot(inv[i])]]
  /\ UNCHANGED <<ligas, times, jogos, rets, Others>>

\* the handler after fetchFixturesSmart returned
AfterFetch(l) ==
  IF l.hasErrors THEN Return(l, UpstreamError)
  ELSE IF l.fixtures = <<>> THEN Return(l, Success(Summary(l)))
  ELSE [l EXCEPT !.pc = "league", !.k = 1]

\* fetchFixturesSmart: the first request
FetchFirst(i) ==
  LET l == inv[i]
      req == FirstRequest(ApiUrl)
      r0 == Answer(l.up, req)
      l1 == [l EXCEPT !.reqs = Append(@, req), !.log = Append(@, Call("fetch", 1))]
      l2 == [l1 EXCEPT !.hasErrors = r0.errors, !.fixtures = r0.response,
                       !.total = TotalOf(r0)]
  IN /\ l.pc = "fetch"
     /\ inv' = [inv EXCEPT ![i] =
                  IF ~r0.ok THEN Throw(l1, TransportError(r0))
                  ELSE IF l2.total > 1 THEN [l2 EXCEPT !.pc = "page", !.page = 2]
                  ELSE AfterFetch(l2)]
     /\ UNCHANGED <<budget, ligas, times, jogos, rets, Others>>

\* fetchFixturesSmart: one turn of the loop over pages 2..total
FetchPage(i) ==
  LET l == inv[i]
      req == PageRequest(ApiUrl, l.page)
      rp == Answer(l.up, req)
      l1 == [l EXCEPT !.reqs = Append(@, req), !.log = Append(@, Call("fetch", l.page))]
      l2 == [l1 EXCEPT !.fixtures = @ \o rp.response]
  IN /\ l.pc = "page"
     /\ inv' = [inv EXCEPT ![i] =
                  IF ~rp.ok THEN Throw(l1, TransportError(rp))
                  ELSE IF l.page + 1 <= l.total THEN [l2 EXCEPT !.page = l.page + 1]
                  ELSE AfterFetch(l2)]
     /\ UNCHANGED <<budget, ligas, times, jogos, rets, Others>>

\* const ligaId = await ensureLeagueId(fx.league)
EnsureLeague(i) ==
  LET l == inv[i]
      key == StringOf(l.fixtures[l.k].league)
      l1 == [l EXCEPT !.writes = @ \cup {[tbl |-> "ligas", kind |-> "upsert", keys |-> {key}]},
                      !.log = Append(@, Call("league", l.k))]
  IN /\ l.pc = "league"
     /\ \/ /\ ligas' = UpsertKey(ligas, key)
           /\ inv' = [inv EXCEPT ![i] =
                        [l1 EXCEPT !.pc = "home", !.ligaId = IdOf(ligas', key)]]
           /\ rets' = rets \cup {[tbl |-> "ligas", id_api |-> key, id |-> IdOf(ligas', key), by |-> i]}
        \/ /\ inv' = [inv EXCEPT ![i] = Throw([l1 EXCEPT !.fault = TRUE], StoreDown)]
           /\ UNCHANGED <<ligas, rets>>
     /\ UNCHANGED <<budget, times, jogos, Others>>

\* const homeId = await ensureTeamId(fx.teams.home)
EnsureHome(i) ==
  LET l == inv[i]
      key == StringOf(l.fixtures[l.k].home)
      l1 == [l EXCEPT !.writes = @ \cup {[tbl |-> "times", kind |-> "upsert", keys |-> {key}]},
                      !.log = Append(@, Call("home", l.k))]
  IN /\ l.pc = "home"
     /\ \/ /\ times' = UpsertKey(times, key)
           /\ inv' = [inv EXCEPT ![i] =
                        [l1 EXCEPT !.pc = "away", !.homeId = IdOf(times', key)]]
           /\ rets' = rets \cup {[tbl |-> "times", id_api |-> key, id |-> IdOf(times', key), by |-> i]}
        \/ /\ inv' = [inv EXCEPT ![i] = Throw([l1 EXCEPT !.fault = TRUE], StoreDown)]
           /\ UNCHANGED <<times, rets>>
     /\ UNCHANGED <<budget, ligas, jogos, Others>>

\* const awayId = await ensureTeamId(fx.teams.away); rows.push({...}); next fx,
\* or upsertJogos(rows) when the loop ends
EnsureAway(i) ==
  LET l == inv[i]
      fx == l.fixtures[l.k]
      key == StringOf(fx.away)
      l1 == [l EXCEPT !.writes = @ \cup {[tbl |-> "times", kind |-> "upsert", keys |-> {key}]},
                      !.log = Append(@, Call("away", l.k))]
  IN /\ l.pc = "away"
     /\ \/ /\ times' = UpsertKey(times, key)
           /\ LET l2 == [l1 EXCEPT !.rows = Append(@, BuildRow(fx, l.ligaId, l.homeId,
                                                              IdOf(times', key))),
                                   !.ligaId = NullRef, !.homeId = NullRef]
              IN inv' = [inv EXCEPT ![i] =
                           IF l.k < Len(l.fixtures)
                           THEN [l2 EXCEPT !.pc = "league", !.k = l.k + 1]
                           ELSE [l2 EXCEPT !.pc = "select", !.k = 0]]
           /\ rets' = rets \cup {[tbl |-> "times", id_api |-> key, id |-> IdOf(times', key), by |-> i]}
        \/ /\ inv' = [inv EXCEPT ![i] = Throw([l1 EXCEPT !.fault = TRUE], StoreDown)]
           /\ UNCHANGED <<times, rets>>
     /\ UNCHANGED <<budget, ligas, jogos, Others>>

\* upsertJogos: select("id_api").in("id_api", ids)
Select(i) ==
  LET l == inv[i]
      l1 == [l EXCEPT !.log = Append(@, Call("select", 0))]
  IN /\ l.pc = "select"
     /\ \/ inv' = [inv EXCEPT ![i] =
                     [l1 EXCEPT !.pc = "upsert",
                                !.existingSet = Existing(jogos, l.rows)]]
        \/ inv' = [inv EXCEPT ![i] = Throw([l1 EXCEPT !.fault = TRUE], StoreDown)]
     /\ UNCHANGED <<budget, ligas, times, jogos, rets, Others>>

\* upsertJogos: upsert(rows, { onConflict: "id_api" }); on upErr the fallback
BulkUpsert(i) ==
  LET l == inv[i]
      l1 == [l EXCEPT !.writes = @ \cup {[tbl |-> "jogos", kind |-> "upsert",
                                          keys |-> Ids(l.rows)]},
                      !.log = Append(@, Call("upsert", 0))]
  IN /\ l.pc = "upsert"
     /\ \/ /\ ~Repeats(l.rows)
           /\ jogos' = UpsertRows(jogos, l.rows)
           /\ inv' = [inv EXCEPT ![i] = Return(l1, Success(Summary(l)))]
        \/ /\ inv' = [inv EXCEPT ![i] =
                        [l1 EXCEPT !.pc = IF toInsert(l) # <<>> THEN "insert" ELSE "update",
                                   !.j = 1,
                                   !.before = jogos,
                                   !.fault = @ \/ ~Repeats(l.rows)]]
           /\ UNCHANGED jogos
     /\ UNCHANGED <<budget, ligas, times, rets, Others>>

\* upsertJogos, fallback: insert(toInsert)
FallbackInsert(i) ==
  LET l == inv[i]
      l1 == [l EXCEPT !.writes = @ \cup {[tbl |-> "jogos", kind |-> "insert",
                                          keys |-> Ids(toInsert(l))]},
                      !.log = Append(@, Call("insert", 0))]
  IN /\ l.pc = "insert"
     /\ \/ /\ ~InsertConflicts(jogos, toInsert(l))
           /\ jogos' = InsertRows(jogos, toInsert(l))
           /\ inv' = [inv EXCEPT ![i] =
                        IF toUpdate(l) = <<>> THEN Return(l1, Success(Summary(l)))
                        ELSE [l1 EXCEPT !.pc = "update"]]
        \/ /\ InsertConflicts(jogos, toInsert(l))
           /\ inv' = [inv EXCEPT ![i] = Throw(l1, UniqueViolation)]
           /\ UNCHANGED jogos
        \/ /\ inv' = [inv EXCEPT ![i] = Throw([l1 EXCEPT !.fault = TRUE], StoreDown)]
           /\ UNCHANGED jogos
     /\ UNCHANGED <<budget, ligas, times, rets, Others>>

\* upsertJogos, fallback: one turn of the loop update(r).eq("id_api", r.id_api)
FallbackUpdate(i) ==
  LET l == inv[i]
      r == toUpdate(l)[l.j]
      l1 == [l EXCEPT !.writes = @ \cup {[tbl |-> "jogos", kind |-> "update",
                                          keys |-> {r.id_api}]},
                      !.log = Append(@, Call("update", l.j))]
  IN /\ l.pc = "update"
     /\ \/ /\ jogos' = UpdateWhere(jogos, r)
           /\ inv' = [inv EXCEPT ![i] =
                        IF l.j < Len(toUpdate(l)) THEN [l1 EXCEPT !.j = l.j + 1]
                        ELSE Return(l1, Success(Summary(l)))]
        \/ /\ inv' = [inv EXCEPT ![i] = Throw([l1 EXCEPT !.fault = TRUE], StoreDown)]
           /\ UNCHANGED jogos
     /\ UNCHANGED <<budget, ligas, times, rets, Others>>

(***************************************************************************)
(* mapStatus alone                                                         *)
(***************************************************************************)
MapOne ==
  /\ codes # <<>>
  /\ mapped' = Append(mapped, <<Head(codes), mapStatus(Head(codes))>>)
  /\ codes' = Tail(codes)
  /\ UNCHANGED <<apiKey, provider, budget, inv, ligas, times, jogos, rets>>

(***************************************************************************)
(* Specifications                                                          *)
(***************************************************************************)
EmptyStore == [ligas |-> {}, times |-> {}, jogos |-> {}]

\* what an earlier successful ingestion of one page holding Fx(1) left
SeededStore ==
  [ligas |-> UpsertKey({}, StringOf(Fx(1).league)),
   times |-> UpsertKey(UpsertKey({}, StringOf(Fx(1).home)), StringOf(Fx(1).away)),
   jogos |-> UpsertRows({}, <<BuildRow(Fx(1), 1, 1, 2)>>)]

InitStore(stores) ==
  /\ inv = [i \in Procs |-> Idle]
  /\ \E st \in stores : ligas = st.ligas /\ times = st.times /\ jogos = st.jogos
  /\ rets = {}

\* one process, its invocations one after the other, on an empty store or on
\* one that earlier runs filled
Init ==
  /\ InitStore({EmptyStore, SeededStore})
  /\ apiKey \in BOOLEAN
  /\ provider = "any"
  /\ budget = SeqBudget
  /\ codes = <<>> /\ mapped = <<>>

\* two processes, one invocation each, interleaved at every await
InitConc ==
  /\ InitStore({EmptyStore})
  /\ apiKey = TRUE
  /\ provider = "overlapping"
  /\ budget = ConcBudget
  /\ codes = <<>> /\ mapped = <<>>

\* mapStatus on every sequence of up to MaxCodes codes
InitStatus ==
  /\ InitStore({EmptyStore})
  /\ apiKey = TRUE
  /\ provider = "none"
  /\ budget = <<0, 0>>
  /\ codes \in UNION {[1..n -> Codes] : n \in 1..MaxCodes}
  /\ mapped = <<>>

Next ==
  \E i \in Procs :
    \/ Begin(i)
    \/ FetchFirst(i)
    \/ FetchPage(i)
    \/ EnsureLeague(i)
    \/ EnsureHome(i)
    \/ EnsureAway(i)
    \/ Select(i)
    \/ BulkUpsert(i)
    \/ FallbackInsert(i)
    \/ FallbackUpdate(i)

NextStatus == MapOne

Spec == Init /\ [][Next]_vars
SpecConc == InitConc /\ [][Next]_vars
SpecStatus == InitStatus /\ [][NextStatus]_vars

\* one step of a started invocation: an awaited call settles and the handler
\* runs to its next await or to its return
Step(i) ==
  \/ FetchFirst(i) \/ FetchPage(i)
  \/ EnsureLeague(i) \/ EnsureHome(i) \/ EnsureAway(i)
  \/ Select(i) \/ BulkUpsert(i) \/ FallbackInsert(i) \/ FallbackUpdate(i)

\* every awaited call settles, with a result or an error, and the runtime then
\* resumes the handler; whether a request arrives is left open
SpecLive == Init /\ [][Next]_vars /\ \A i \in Procs : WF_vars(Step(i))

(***************************************************************************)
(* Properties                                                              *)
(***************************************************************************)
Finished(l) == l.pc = "done"
\* fetchFixturesSmart was called and has returned or thrown
FetchOver(l) == l.up # <<>> /\ l.pc \notin {"idle", "fetch", "page"}
AllPagesOk(up) == \A p \in 1..Len(up) : up[p].ok
\* fetchFixturesSmart returned its fixtures and the handler went on to the loop
Arrived(l) == FetchOver(l) /\ AllPagesOk(l.up) /\ ~l.hasErrors
RowsWith(tbl, key) == {r \in tbl : r.id_api = key}
Table(name) == CASE name = "ligas" -> ligas [] name = "times" -> times [] OTHER -> jogos

\* C1: a run that follows a successful run of the same process on the same
\* upstream pages, and succeeds, leaves the league, team and match row counts
\* as the first run left them and reports created = 0 and updated = N, N the
\* number of fixtures on the pages.
C1_Idempotence ==
  \A i \in Procs :
    LET l == inv[i]
    IN (Finished(l) /\ l.resp.ok /\ l.prev.ok /\ l.prev.up = l.up) =>
         /\ Cardinality(ligas) = l.prev.nl
         /\ Cardinality(times) = l.prev.nt
         /\ Cardinality(jogos) = l.prev.nj
         /\ l.resp.summary.created = 0
         /\ l.resp.summary.updated = Len(Concat(l.up))

\* a second successful run on the same two fixtures
C1_Witness ==
  \E i \in Procs :
    LET l == inv[i]
    IN /\ Finished(l) /\ l.resp.ok /\ l.prev.ok /\ l.prev.up = l.up
       /\ Len(Concat(l.up)) >= 2
       /\ l.prev.nj >= 2

\* C2: once a run has finished in which no statement failed for a reason of the
\* store, every external id among the fixtures that arrived (on whatever page)
\* has exactly one match row.
C2_Uniqueness ==
  \A i \in Procs :
    LET l == inv[i]
    IN (Finished(l) /\ Arrived(l) /\ ~l.fault) =>
         \A n \in 1..Len(l.fixtures) :
           l.fixtures[n].id # Null =>
             Cardinality(RowsWith(jogos, StringOf(l.fixtures[n].id))) = 1

\* C3: when every page answers with a success status, the requests are one per
\* page 1..T in ascending order, T the first page's paging.total, all with the
\* handler's query, and the fixtures are the pages' records in page order.
C3_Pagination ==
  \A i \in Procs :
    LET l == inv[i]
        T == TotalOf(l.up[1])
    IN (FetchOver(l) /\ AllPagesOk(l.up)) =>
         /\ Len(l.reqs) = T
         /\ \A p \in 1..Len(l.reqs) :
              Served(l.reqs[p]) = p /\ l.reqs[p].query = ApiUrl
         /\ l.fixtures = Concat(SubSeq(l.up, 1, T))

\* three pages fetched, one fixture on each
C3_Witness ==
  \E i \in Procs :
    LET l == inv[i]
    IN /\ FetchOver(l) /\ AllPagesOk(l.up)
       /\ TotalOf(l.up[1]) = 3
       /\ Len(l.reqs) = 3 /\ Len(l.fixtures) = 3

\* the skipped count of a summary: the field, when the summary has one
Skipped(summary) ==
  IF "skipped" \in DOMAIN summary THEN summary["skipped"] ELSE 0
NullIds(fxs) == {n \in 1..Len(fxs) : fxs[n].id = Null}

\* C4: a successful run reports as skipped the fixtures whose id is null, and
\* issues no match write for them.
C4_Skipped ==
  \A i \in Procs :
    LET l == inv[i]
    IN (Finished(l) /\ l.resp.ok) =>
         /\ Skipped(l.resp.summary) = Cardinality(NullIds(l.fixtures))
         /\ NullIds(l.fixtures) # {} =>
              \A w \in l.writes : w.tbl = "jogos" => StringOf(Null) \notin w.keys

\* C5: an invocation whose first page decodes with a non-empty error map ends
\* with ok=false and status 502, having issued no mutation.
C5_UpstreamError ==
  \A i \in Procs :
    LET l == inv[i]
    IN (Finished(l) /\ l.up # <<>> /\ l.up[1].ok /\ l.up[1].errors) =>
         /\ ~l.resp.ok
         /\ l.resp.status = 502
         /\ l.writes = {}

\* C6: when a page request is answered with a non-success status, it is the
\* invocation's last request, the invocation has ended with ok=false and status
\* 500, the error carries that answer's status and body, and the invocation
\* has issued no mutation.
C6_TransportError ==
  \A i \in Procs :
    LET l == inv[i]
    IN \A p \in 1..Len(l.reqs) :
         LET pg == Answer(l.up, l.reqs[p])
         IN ~pg.ok =>
              /\ p = Len(l.reqs)
              /\ Finished(l)
              /\ ~l.resp.ok /\ l.resp.status = 500
              /\ l.resp.error.status = pg.status /\ l.resp.error.body = pg.body
              /\ l.writes = {}

\* the second or a later page failed
C6_Witness ==
  \E i \in Procs :
    LET l == inv[i]
    IN /\ Len(l.reqs) >= 2
       /\ ~Answer(l.up, l.reqs[Len(l.reqs)]).ok
       /\ Finished(l) /\ l.resp.status = 500

TeamWrites(l) == {w \in l.writes : w.tbl = "times"}

\* C7: for a fixture whose home (away) team id is null, no team upsert is issued
\* for the key made of it, no team row has it, and the match row built for the
\* fixture has a null reference on that side.
C7_MissingTeam ==
  \A i \in Procs :
    LET l == inv[i]
    IN (\E n \in 1..Len(l.fixtures) : l.fixtures[n].home = Null \/ l.fixtures[n].away = Null) =>
         /\ \A w \in TeamWrites(l) : StringOf(Null) \notin w.keys
         /\ StringOf(Null) \notin KeysOf(times)
         /\ \A n \in 1..Len(l.rows) :
              /\ l.fixtures[n].home = Null => l.rows[n].time_casa_id = NullRef
              /\ l.fixtures[n].away = Null => l.rows[n].time_fora_id = NullRef

\* C8: all resolver calls for one external id returned the same internal id, and
\* the table holds exactly one row for it.
C8_ResolverConvergence ==
  \A a \in rets :
    /\ \A b \in rets : (a.tbl = b.tbl /\ a.id_api = b.id_api) => a.id = b.id
    /\ Cardinality(RowsWith(Table(a.tbl), a.id_api)) = 1

\* both invocations, each still running, resolved the same external id
C8_Witness ==
  /\ \A i \in Procs : inv[i].pc \notin {"idle", "done"}
  /\ \E a, b \in rets : a.by # b.by /\ a.tbl = b.tbl /\ a.id_api = b.id_api

\* invocation i ended on a unique violation that no repetition in its own batch
\* explains: a row another invocation inserted after i's pre-read
FailedByOther(i) ==
  LET l == inv[i]
  IN Finished(l) /\ l.resp.error = UniqueViolation /\ ~Repeats(l.rows)

\* C9: of two interleaved invocations neither fails because of the other, and
\* the match table holds one row per external id they wrote.  (The claim's third
\* part, that every mutation is an upsert, fails whenever the fallback runs:
\* it issues insert and update.)
C9_ConcurrentSafe ==
  /\ \A i \in Procs : ~FailedByOther(i)
  /\ \A i \in Procs :
       (Finished(inv[i]) /\ inv[i].resp.ok) =>
         \A key \in Ids(inv[i].rows) : Cardinality(RowsWith(jogos, key)) = 1

\* the claim's third part, on its own: every mutation issued is an upsert
C9_OnlyUpserts ==
  \A i \in Procs : \A w \in inv[i].writes : w.kind = "upsert"

CanonicalStatuses == {"scheduled", "in_progress", "finished", "canceled", "postponed"}

\* C10: mapStatus gives every code a canonical status: the one the table names
\* for a defined code, scheduled for any other string.
C10_StatusTotality ==
  \A n \in 1..Len(mapped) :
    LET c == mapped[n][1]
        st == mapped[n][2]
    IN /\ st \in CanonicalStatuses
       /\ c = "NS" => st = "scheduled"
       /\ c \in {"1H", "2H", "HT", "ET", "BT", "P"} => st = "in_progress"
       /\ c \in {"FT", "AET", "PEN"} => st = "finished"
       /\ c \in {"CANC", "ABD"} => st = "canceled"
       /\ c = "PST" => st = "postponed"
       /\ c \notin DefinedCodes => st = "scheduled"

\* a defined code and the empty string have both been mapped
C10_Witness ==
  /\ \E n \in 1..Len(mapped) : mapped[n][1] = "P"
  /\ \E n \in 1..Len(mapped) : mapped[n][1] = ""

\* the fallback of upsertJogos ran: a per-row write was issued after the bulk upsert
InFallback(l) == \E n \in 1..Len(l.log) : l.log[n].op \in {"insert", "update"}
\* the id_api the fallback writes of the invocation addressed
Attempted(l) ==
  UNION {w.keys : w \in {x \in l.writes : x.tbl = "jogos" /\ x.kind \in {"insert", "update"}}}

\* C11: when the fallback of upsertJogos ends with a failure, the failure is the
\* response of the invocation and every row of the batch was attempted by a
\* fallback write (the insert for the rows not pre-read, an update for each of
\* the others).  Stated for batches whose ids are all present and distinct, so
\* that the only failure is a store error on one write.
C11_FallbackContinues ==
  \A i \in Procs :
    LET l == inv[i]
    IN (Finished(l) /\ InFallback(l) /\ ~l.resp.ok
          /\ NullIds(l.fixtures) = {} /\ ~Repeats(l.rows)) =>
         /\ l.resp.status = 500
         /\ Ids(l.rows) \subseteq Attempted(l)

Resolvers == {"league", "home", "away"}
StoreOps == {"select", "upsert", "insert", "update"}
LastCall(l) == l.log[Len(l.log)]
\* the invocation ended in ensureLeagueId or ensureTeamId: its last call is a
\* resolver's (a resolver that returns is followed by another call)
ResolverFailed(l) == Finished(l) /\ l.log # <<>> /\ LastCall(l).op \in Resolvers

\* C12: when a resolver fails for fixture k the invocation made no resolver
\* call for a later fixture, issued no read or write of the match table, and
\* answered 500 with ok = false and the store error.
C12_ResolverFatal ==
  \A i \in Procs :
    LET l == inv[i]
    IN ResolverFailed(l) =>
         /\ \A n \in 1..Len(l.log) :
              /\ l.log[n].op \in Resolvers => l.log[n].fx <= LastCall(l).fx
              /\ l.log[n].op \notin StoreOps
         /\ \A w \in l.writes : w.tbl # "jogos"
         /\ Len(l.rows) = LastCall(l).fx - 1
         /\ l.resp = Failure500(StoreDown)

\* a resolver failed for a fixture that is not the last of the batch, after an
\* earlier fixture had been resolved
C12_Witness ==
  \E i \in Procs :
    /\ ResolverFailed(inv[i])
    /\ LastCall(inv[i]).fx = 2
    /\ Len(inv[i].fixtures) = 3

MatchOps == {"upsert", "insert", "update"}
ResolverCalls(l) == SelectSeq(l.log, LAMBDA c : c.op \in Resolvers)
\* the n-th resolver call of a strictly sequential run
ResolverCall(n) ==
  Call(<<"league", "home", "away">>[((n - 1) % 3) + 1], ((n - 1) \div 3) + 1)

\* C13 as stated: every call but the last made has completed, and when the
\* identity resolution of fixture i+1 starts the match upsert of fixture i has
\* been made.
C13_PerFixtureUpsert ==
  \A i \in Procs :
    LET l == inv[i]
    IN /\ \A n \in 1..(Len(l.log) - 1) : l.log[n].awaited
       /\ \A n \in 1..Len(l.log) :
            (l.log[n].op = "league" /\ l.log[n].fx > 1) =>
              \E m \in 1..(n - 1) : l.log[m].op \in MatchOps

\* C13, amended: every call but the last made has completed; the resolver calls
\* are made fixture by fixture, league, home, away, each after the one before
\* has completed; and the match table is read and written only after the
\* resolver calls of the last fixture, and after every page request.
C13_Sequential ==
  \A i \in Procs :
    LET l == inv[i]
        rc == ResolverCalls(l)
    IN /\ \A n \in 1..(Len(l.log) - 1) : l.log[n].awaited
       /\ \A n \in 1..Len(rc) : rc[n] = ResolverCall(n)
       /\ \A n \in 1..Len(l.log) :
            /\ l.log[n].op \in StoreOps =>
                 Len(ResolverCalls([log |-> SubSeq(l.log, 1, n)])) = 3 * Len(l.fixtures)
            /\ l.log[n].op = "fetch" =>
                 \A m \in 1..n : l.log[m] = Call("fetch", m)

\* a batch of three fixtures has been resolved and written
C13_Witness ==
  \E i \in Procs :
    /\ Finished(inv[i]) /\ inv[i].resp.ok
    /\ Len(inv[i].fixtures) = 3
    /\ LastCall(inv[i]).op \in MatchOps

\* the first page was requested and decoded with a non-empty error map
FirstPageErrors(l) == l.reqs # <<>> /\ l.up[1].ok /\ l.up[1].errors

\* C14: after a first page with a non-empty error map no further page is
\* requested, and fetchFixturesSmart returns (the invocation does not end with
\* the 500 of a raised error).
C14_StopsAtError ==
  \A i \in Procs :
    LET l == inv[i]
    IN FirstPageErrors(l) =>
         /\ Len(l.reqs) = 1
         /\ Finished(l) => l.resp.status # 500

\* the internal ids a table holds
IdsIn(tbl) == {r.id : r \in tbl}

\* C15: a match write is made only after the league and both team upserts of
\* every fixture of its batch have completed, in that order, and each non-null
\* league, home-team and away-team reference of a stored match row is the
\* internal id of a stored league or team row.
C15_ReferentialIntegrity ==
  /\ \A r \in jogos :
       /\ r.liga_id # NullRef => r.liga_id \in IdsIn(ligas)
       /\ r.time_casa_id # NullRef => r.time_casa_id \in IdsIn(times)
       /\ r.time_fora_id # NullRef => r.time_fora_id \in IdsIn(times)
  /\ \A i \in Procs :
       LET l == inv[i]
       IN \A n \in 1..Len(l.log) :
            l.log[n].op \in MatchOps =>
              \A k \in 1..Len(l.rows) :
                \E a, b, c \in 1..(n - 1) :
                  /\ a < b /\ b < c
                  /\ l.log[a] = Call("league", k)
                  /\ l.log[b] = Call("home", k)
                  /\ l.log[c] = Call("away", k)

\* two interleaved invocations have both written match rows, and the store
\* holds a match row of each league
C15_Witness ==
  /\ \A i \in Procs : Finished(inv[i]) /\ inv[i].resp.ok /\ inv[i].rows # <<>>
  /\ Cardinality({r.liga_id : r \in jogos}) = 2

Tables == {"ligas", "times", "jogos"}
\* each external id of the table has one row, hence one internal id
OneInternalId(tbl) == \A r, s \in tbl : r.id_api = s.id_api => r = s
\* a step keeps every external id of every table, under the same internal id
KeepsRows ==
  \A name \in Tables :
    \A r \in Table(name) :
      \E s \in Table(name)' : s.id_api = r.id_api /\ s.id = r.id

\* C16: in every state each external id of each table has exactly one internal
\* id, and no step of any invocation, failing or not, removes an external id
\* from a table or changes its internal id.
C16_StableIdentity ==
  /\ [](\A name \in Tables : OneInternalId(Table(name)))
  /\ [][KeepsRows]_vars

\* an invocation that followed a successful one has failed after writing, and
\* the store holds a match row
C16_Witness ==
  \E i \in Procs :
    /\ Finished(inv[i]) /\ ~inv[i].resp.ok
    /\ inv[i].writes # {}
    /\ inv[i].prev.ok
    /\ jogos # {}

\* the three responses the handler builds
Terminal(r) ==
  \/ r.ok /\ r.status = 200 /\ r.summary.created \in Nat /\ r.summary.updated \in Nat
  \/ ~r.ok /\ r.status \in {500, 502}

\* C17: a started invocation eventually returns; it has no response before it
\* returns, and the response it returns with is a success with its counts or a
\* failure of status 502 or 500.
C17_Terminates ==
  /\ \A i \in Procs : (inv[i].pc \notin {"idle", "done"}) ~> Finished(inv[i])
  /\ [](\A i \in Procs :
          /\ ~Finished(inv[i]) => inv[i].resp = NoResp
          /\ Finished(inv[i]) => inv[i].resp # NoResp /\ Terminal(inv[i].resp))

\* an invocation has returned after requesting every page of the longest
\* upstream and meeting a store failure
C17_Witness ==
  \E i \in Procs :
    /\ Finished(inv[i])
    /\ Len(inv[i].reqs) = MaxPages
    /\ inv[i].fault

\* the first page was requested and decoded with no error and no fixture
EmptyFirstPage(l) ==
  l.reqs # <<>> /\ l.up[1].ok /\ ~l.up[1].errors /\ l.up[1].response = <<>>

\* C18: after a first page with an empty error map and no fixture, no further
\* page is requested and no store call is made, and the invocation ends with
\* success, created = 0 and updated = 0.
C18_EmptyFirstPage ==
  \A i \in Procs :
    LET l == inv[i]
    IN EmptyFirstPage(l) =>
         /\ Len(l.reqs) = 1
         /\ \A n \in 1..Len(l.log) : l.log[n].op = "fetch"
         /\ Finished(l) => l.resp = Success(NoSummary)

\* the created count an invocation has reported
Created(i) ==
  IF Finished(inv[i]) /\ inv[i].resp.ok THEN inv[i].resp.summary.created ELSE 0

\* C19: when every invocation made so far has succeeded, the created counts
\* they reported add up to the number of match rows added to the store (the
\* store of SpecConc starts empty, so that is the number of match rows).
C19_CreatedOnce ==
  (\A i \in Procs : inv[i].pc = "idle" \/ (Finished(inv[i]) /\ inv[i].resp.ok)) =>
    Created(1) + Created(2) = Cardinality(jogos)

\* the invocation succeeded through the fallback of upsertJogos
FallbackDone(l) == Finished(l) /\ l.resp.ok /\ InFallback(l)
\* the counts of a batch against the table the write found
CountsOn(tbl, rows) ==
  [created |-> Len(SelectSeq(rows, LAMBDA r : r.id_api \notin KeysOf(tbl))),
   updated |-> Len(SelectSeq(rows, LAMBDA r : r.id_api \in KeysOf(tbl)))]

\* C20: when the bulk upsert of a batch without repeated ids fails and every
\* fallback write succeeds, the match table is the one the bulk upsert would
\* have left on the table it found, and the counts returned are the numbers of
\* rows of the batch that were new to and already in that table.
C20_FallbackEquivalent ==
  \A i \in Procs :
    LET l == inv[i]
    IN (FallbackDone(l) /\ ~Repeats(l.rows)) =>
         /\ jogos = UpsertRows(l.before, l.rows)
         /\ l.resp.summary = CountsOn(l.before, l.rows)

\* a fallback that inserted two rows has succeeded, and one that inserted a row
\* and updated another
C20_Witness ==
  \E i \in Procs :
    /\ FallbackDone(inv[i]) /\ ~Repeats(inv[i].rows)
    /\ inv[i].resp.summary.created + inv[i].resp.summary.updated >= 2
    /\ inv[i].resp.summary.created >= 1
    /\ \E n \in 1..Len(inv[i].log) : inv[i].log[n].op = "insert"
====
